---- MODULE Spec2Model ----
(***************************************************************************)
(* A model of quizgen's quiz construction: the word pool of EnglishQuiz    *)
(* (src/src/english.rs), the provider chain try_get, generate_mcq with     *)
(* generate_choices, and the question-building loop of quiz()              *)
(* (src/src/main.rs) with the questions load_questions carries forward;    *)
(* and of the quiz session of the library (src/src/lib.rs, src/src/mcq.rs):*)
(* Section::prepare, the two presentation modes, Section::answer and       *)
(* Section::grade.                                                         *)
(*                                                                         *)
(* A Rust String is a sequence of one-character strings, so that trim and  *)
(* to_lowercase are computed and not assumed.  Randomness (rand::rng) and  *)
(* the answers of the external providers are nondeterministic choices.     *)
(***************************************************************************)
EXTENDS Integers, Sequences, FiniteSets, TLC

\* ------------------------------------------------------------------ bounds

\* The largest number of lines of the source word list.
MaxLines == 2

\* The largest requested quiz length (args.length, validated to be > 0).
MaxLength == 1

\* The largest number of lines of a word list whose pool is drawn dry.
MaxPoolLines == 3

\* How many select_word calls a client of the pool makes past its size.
MaxExtraCalls == 2

\* The largest number of questions of a session (the n of quiz(n, ..)).
MaxQuestions == 2

\* The largest number of items of the bank of a section.
MaxBank == 2

\* The largest number of submissions handed to Section::answer directly.
MaxAnswers == 3

\* The largest number of entries of a file of the previous session.
MaxPrior == 3

\* The largest requested quiz length of a run that loads a previous session.
MaxCarryLength == 10

\* The largest requested quiz length of a run that tops a seed up.
MaxFillLength == 5

\* ------------------------------------------------------- program constants

\* generate_mcq::<4>: the number of choices of a question.
N == 4

\* apis: [Box<dyn EnglishApi>; 2]
NumApis == 2

\* questions.truncate(args.length / 5)
SeedRatio == 5

\* ---------------------------------------------------------------- strings

\* Option<T>: None is the empty sequence and Some(x) the sequence <<x>>.
NoneOpt == <<>>
Some(x) == <<x>>

\* Result<T, E>
Ok(x) == [ok |-> TRUE, val |-> <<x>>, err |-> <<>>]
Err(e) == [ok |-> FALSE, val |-> <<>>, err |-> <<e>>]

Min(a, b) == IF a < b THEN a ELSE b

\* Iterator::zip
zip(a, b) == [i \in 1..Min(Len(a), Len(b)) |-> <<a[i], b[i]>>]

\* char::to_lowercase, on the letters the model uses.
LowerChar(c) ==
    CASE c = "C" -> "c"
      [] c = "A" -> "a"
      [] c = "T" -> "t"
      [] OTHER -> c

\* str::to_lowercase
to_lowercase(s) == [i \in DOMAIN s |-> LowerChar(s[i])]

\* char::to_uppercase, on the letters the model uses.
UpperChar(c) ==
    CASE c = "a" -> "A"
      [] c = "b" -> "B"
      [] c = "c" -> "C"
      [] c = "d" -> "D"
      [] c = "x" -> "X"
      [] OTHER -> c

\* str::to_uppercase
to_uppercase(s) == [i \in DOMAIN s |-> UpperChar(s[i])]

IsWhitespace(c) == c \in {" ", "\n"}

RECURSIVE trim_start(_)
trim_start(s) ==
    IF s # <<>> /\ IsWhitespace(Head(s)) THEN trim_start(Tail(s)) ELSE s

RECURSIVE trim_end(_)
trim_end(s) ==
    IF s # <<>> /\ IsWhitespace(s[Len(s)])
    THEN trim_end(SubSeq(s, 1, Len(s) - 1))
    ELSE s

\* str::trim
trim(s) == trim_end(trim_start(s))

\* The strings of the model.
s_cat == <<"c", "a", "t">>
s_Cat == <<"C", "a", "t">>
s_Cat_padded == <<" ", "C", "a", "t", " ">>
s_CAT_padded == <<" ", "C", "A", "T", " ">>
s_blank == <<" ">>
s_tom == <<"t", "o", "m">>
s_kit == <<"k", "i", "t">>
s_pus == <<"p", "u", "s">>

\* The lines a source word list is made of: a word with surrounding
\* whitespace and a capital, and a blank line.
LineSet == {s_Cat_padded, s_blank}

RECURSIVE SeqsUpTo(_, _)
SeqsUpTo(S, n) ==
    IF n = 0 THEN {<<>>}
    ELSE LET shorter == SeqsUpTo(S, n - 1)
         IN  shorter \cup {Append(s, x) : s \in {t \in shorter : Len(t) = n - 1}, x \in S}

\* The contents of the source file, as its lines.
SourceFiles == SeqsUpTo(LineSet, MaxLines)

\* The source files a client of the pool alone builds it from.
PoolFiles == SeqsUpTo(LineSet, MaxPoolLines)

\* --------------------------------------------------------------- providers

\* The opaque failure of a call of provider k (anyhow::Error): each call
\* fails with an error of its own.
ErrorOf(k) == [provider |-> k]

\* The answers the providers can draw from in a run: the synonym lists and
\* the example or definition lists.
\* For a single generate_mcq call: enough distinct synonyms, too few of them,
\* the word itself in another case among too few or among enough entries,
\* one synonym twice, and the word in capitals between blanks after three
\* synonyms; no statement, or two to pick from.
McqWorld ==
    [synonyms |-> { <<s_tom, s_kit, s_pus>>,
                    <<s_tom, s_kit>>,
                    <<s_tom, s_kit, s_Cat>>,
                    <<s_tom, s_Cat, s_kit, s_pus>>,
                    <<s_tom, s_kit, s_kit>>,
                    <<s_tom, s_kit, s_pus, s_CAT_padded>> },
     statements |-> { <<>>, <<"st1", "st2">> }]

\* For a whole run of quiz(): enough synonyms or too few, one statement or
\* none.
RunWorld ==
    [synonyms |-> { <<s_tom, s_kit, s_pus>>, <<s_tom, s_kit>> },
     statements |-> { <<>>, <<"st1">> }]

\* The word a provider resolved the request for: the word asked, or an entry
\* id such as "cat:1" (webster.rs puts meta.id there).
ResolvedWords(w) == {w, w \o <<":", "1">>}

Details == {"Definitions", "Synonyms", "Antonyms", "Examples"}

\* QuizTypeCli: the kinds quiz() can be started with.
CliKinds == {"Synonyms", "Definitions"}

\* SynonymResponse, ExampleResponse, DefinitionResponse: { word, list }.
Responses(world, a, w) ==
    [word : ResolvedWords(w),
     list : IF a = "synonyms" THEN world.synonyms ELSE world.statements]

\* anyhow::Result<T> of one EnglishApi call of provider k.
ProviderResults(world, k, a, w) ==
    {Err(ErrorOf(k))} \cup {Ok(r) : r \in Responses(world, a, w)}

\* ------------------------------------------------------------------ state

VARIABLES
    words,          \* EnglishQuiz.words
    selected,       \* EnglishQuiz.selected
    kind,           \* EnglishQuiz.kind
    length,         \* args.length
    questions,      \* quiz(): the question list being built
    pc,             \* where quiz() stands
    word,           \* quiz(): the lowercased word handed to generate_mcq
    attr,           \* try_get: the attribute the closure f asks for
    api,            \* try_get: the position of the for loop in self.apis
    last_err,       \* try_get: last_err
    calls,          \* the provider calls of the current lookup, in order
    lookup,         \* the result of the lookup, once try_get has returned
    synonyms_resp,  \* generate_mcq: synonyms_resp
    statement_resp, \* generate_mcq: examples_resp or definition_resp
    mcq_result,     \* the result of the last generate_mcq call
    select_result,  \* the result of the last select_word call
    select_calls,   \* the number of select_word calls made
    offered,        \* the indices select_word returned, in order
    run_result,     \* the result of quiz(), once it has returned
    section,        \* Section::new(questions): None, or its number of questions
    started,        \* section.start_quiz has run
    persisted,      \* the number of session files saved
    questions_file, \* the questions file of the previous session, as read
    answers_file,   \* the answers file of the previous session, as read
    loaded,         \* the result of load_questions, once it has returned
    seed,           \* quiz(): the question list as the loop found it
    bank,           \* Section.bank
    section_questions, \* Section.questions
    quiz_mode,      \* lib quiz(): quiz_mode
    quiz_n,         \* lib quiz(): n
    answers,        \* interactive_quiz, batch_quiz: answers
    entered,        \* the lines read from stdin, in order
    output,         \* what the session displayed and prompted, in order
    score,          \* the result of Section::grade, once it has returned
    lib_pc,         \* where lib quiz() stands
    synonyms_calls  \* generate_mcq: the provider calls of its synonym lookup

vars ==
    <<words, selected, kind, length, questions, pc, word, attr, api, last_err,
      calls, lookup, synonyms_resp, statement_resp, mcq_result, select_result,
      select_calls, offered, run_result, section, started, persisted,
      questions_file, answers_file, loaded, seed,
      bank, section_questions, quiz_mode, quiz_n, answers, entered, output,
      score, lib_pc, synonyms_calls>>

poolVars == <<words, selected, select_result, select_calls, offered>>
lookupVars == <<attr, api, last_err, calls, lookup>>
mcqVars == <<word, synonyms_resp, statement_resp, mcq_result, synonyms_calls>>
runVars == <<kind, length, questions, pc, run_result, section, started, persisted>>
mainVars == <<poolVars, lookupVars, mcqVars, runVars>>
carryVars == <<questions_file, answers_file, loaded, seed>>
libVars ==
    <<bank, section_questions, quiz_mode, quiz_n, answers, entered, output,
      score, lib_pc>>

\* EnglishQuizError
DataError == [kind |-> "DataError", cause |-> <<>>]
ApiError(e) == [kind |-> "ApiError", cause |-> <<e>>]
FileError == [kind |-> "FileError", cause |-> <<>>]

\* ------------------------------------------------------------- word pool

\* EnglishQuiz::new: one pool entry per line, trimmed.
new_words(lines) == [i \in DOMAIN lines |-> trim(lines[i])]

new_selected(ws) == [i \in DOMAIN ws |-> FALSE]

\* The indices select_word filters: those not selected yet.
Unselected(sel) == {i \in DOMAIN sel : ~sel[i]}

\* EnglishQuiz::available_words
available_words == Cardinality(Unselected(selected))

\* A faulty choose: it draws nothing.
choose_none(S) == {NoneOpt}
\* IteratorRandom::choose: any element, or None of an empty iterator.
choose(S) == IF S = {} THEN {NoneOpt} ELSE {Some(i) : i \in S}

\* A faulty select_word: the index is not marked.
MarkSelectedNot(sel, index) == sel
\* self.selected[index] = true
MarkSelected(sel, index) == [sel EXCEPT ![index] = TRUE]

\* EnglishQuiz::select_word, with the index `choose` drew.
select_word(choice) ==
    /\ select_calls' = select_calls + 1
    /\ IF choice = NoneOpt
       THEN /\ select_result' = Err(DataError)
            /\ UNCHANGED <<words, selected, offered>>
       ELSE /\ selected' = MarkSelected(selected, choice[1])
            /\ offered' = Append(offered, choice[1])
            /\ select_result' = Ok(words[choice[1]])
            /\ UNCHANGED words

\* ------------------------------------------------------- generate_choices

Perms(n) == {p \in [1..n -> 1..n] : \A i, j \in 1..n : p[i] = p[j] => i = j}

\* SliceRandom::shuffle, with the permutation the generator drew.
shuffle(s, p) == [i \in 1..Len(s) |-> s[p[i]]]

\* Iterator::take
take(s, n) == SubSeq(s, 1, Min(n, Len(s)))

\* A faulty filter: the self-matches stay.
FilterNothing(w, synonyms) == synonyms
\* .filter(|s| s.to_lowercase() != word.to_lowercase())
FilterSelf(w, synonyms) ==
    SelectSeq(synonyms, LAMBDA s : to_lowercase(s) # to_lowercase(w))

\* EnglishQuiz::generate_choices, with the two permutations drawn.
generate_choices(w, synonyms, p1, p2) ==
    LET shuffled == shuffle(FilterSelf(w, synonyms), p1)
        taken == take(shuffled, N - 1) \o <<w>>
    IN  IF Len(taken) # N THEN Err(DataError) ELSE Ok(shuffle(taken, p2))

\* ------------------------------------------------------------ Choice, Mcq

\* impl TryFrom<usize> for Choice
Choice_try_from(value) ==
    CASE value = 0 -> Ok("A")
      [] value = 1 -> Ok("B")
      [] value = 2 -> Ok("C")
      [] value = 3 -> Ok("D")
      [] OTHER -> Err("Invalid choice")

\* `self.solution as usize`
Choice_as_usize(c) ==
    CASE c = "A" -> 0
      [] c = "B" -> 1
      [] c = "C" -> 2
      [] c = "D" -> 3

\* Mcq::new
Mcq(statement, choices, solution) ==
    [sentence |-> statement, choices |-> choices, solution |-> solution]

\* choices.iter().position(|c| c.to_lowercase() == word.to_lowercase())
Matches(choices, w) ==
    {i \in DOMAIN choices : to_lowercase(choices[i]) = to_lowercase(w)}

\* A faulty position: the index counted from 1.
positionOneBased(choices, w) ==
    LET m == Matches(choices, w)
    IN  IF m = {} THEN NoneOpt
        ELSE Some(CHOOSE i \in m : \A j \in m : i <= j)
position(choices, w) ==
    LET m == Matches(choices, w)
    IN  IF m = {} THEN NoneOpt
        ELSE Some((CHOOSE i \in m : \A j \in m : i <= j) - 1)

\* ---------------------------------------------------------------- try_get

\* A faulty order: the array walked from its end.
ApiAtReversed(k) == NumApis + 1 - k
\* for api in &self.apis: the provider the k-th iteration calls.
ApiAt(k) == k

\* A faulty last_err: the first error is kept.
KeepFirstErr(prev, e) == IF prev = NoneOpt THEN Some(e) ELSE prev
\* Err(e) => last_err = Some(e)
NextLastErr(prev, e) == Some(e)

\* try_get has returned and its result is taken: its locals are gone.
try_get_end ==
    /\ UNCHANGED attr
    /\ api' = 1
    /\ last_err' = NoneOpt
    /\ calls' = <<>>
    /\ lookup' = NoneOpt

\* A faulty entry of try_get: the provider iteration goes on from where the
\* lookup before it stopped.
try_get_resume(a) ==
    /\ attr' = a
    /\ UNCHANGED api
    /\ last_err' = NoneOpt
    /\ calls' = <<>>
    /\ lookup' = NoneOpt

\* The entry of try_get: nothing called yet, last_err = None.
try_get_begin(a) ==
    /\ attr' = a
    /\ api' = 1
    /\ last_err' = NoneOpt
    /\ calls' = <<>>
    /\ lookup' = NoneOpt

\* One iteration of the for loop of try_get: the call f(api) and its match.
ProviderCall(world) ==
    /\ pc = "try_get"
    /\ \E r \in ProviderResults(world, ApiAt(api), attr, word) :
         /\ calls' = Append(calls, [api |-> ApiAt(api), attr |-> attr, result |-> r])
         /\ IF r.ok
            THEN \* Ok(t) => return Ok(t)
                 /\ lookup' = Some(Ok(r.val[1]))
                 /\ pc' = "returned"
                 /\ UNCHANGED <<api, last_err>>
            ELSE /\ last_err' = NextLastErr(last_err, r.err[1])
                 /\ IF api < NumApis
                    THEN /\ api' = api + 1
                         /\ UNCHANGED <<lookup, pc>>
                    ELSE \* Err(EnglishQuizError::ApiError(last_err.unwrap()))
                         /\ lookup' = Some(Err(ApiError(last_err'[1])))
                         /\ pc' = "returned"
                         /\ UNCHANGED api
    /\ UNCHANGED <<attr, kind, length, questions, run_result, section, started, persisted>>
    /\ UNCHANGED poolVars
    /\ UNCHANGED mcqVars
    /\ UNCHANGED <<carryVars, libVars>>

\* ----------------------------------------------------------- generate_mcq

\* match self.kind: the attribute the statement is taken from; None stands
\* for the arm `_ => unimplemented!()`.
StatementAttr(k) ==
    CASE k = "Synonyms" -> Some("examples")
      [] k = "Definitions" -> Some("definitions")
      [] OTHER -> NoneOpt

\* A faulty check: the two resolved words are not compared.
InvalidDataNoWordCheck(w, syn, stmt) ==
    \/ stmt.list = <<>>
    \/ Len(syn.list) < N - 1
    \/ syn.word # w
\* The check of generate_mcq on the two responses.
InvalidData(w, syn, stmt) ==
    \/ stmt.list = <<>>
    \/ Len(syn.list) < N - 1
    \/ syn.word # stmt.word
    \/ syn.word # w

Panic == [kind |-> "panic", cause |-> <<>>]

\* generate_mcq from generate_choices on: the choices, the position of the
\* word among them and the solution.
build_mcq(w, syn, statement, p1, p2) ==
    LET choices == generate_choices(w, syn.list, p1, p2)
    IN  IF ~choices.ok THEN Err(DataError)
        ELSE LET correct_index == position(choices.val[1], w)
             IN  IF correct_index = NoneOpt THEN Err(Panic)
                 ELSE LET solution == Choice_try_from(correct_index[1])
                      IN  IF ~solution.ok THEN Err(Panic)
                          ELSE Ok(Mcq(statement, choices.val[1], solution.val[1]))

\* The results generate_mcq can return once both lookups have answered, over
\* the random draws: the statement index and the two shuffles.
generate_mcq_tail(w, syn, stmt) ==
    IF InvalidData(w, syn, stmt) THEN {Err(DataError)}
    ELSE {build_mcq(w, syn, stmt.list[i], p1, p2) :
            i \in DOMAIN stmt.list,
            p1 \in Perms(Len(FilterSelf(w, syn.list))),
            p2 \in Perms(N)}

\* ------------------------------------------------------------------ quiz()

\* A faulty match: a DataError returns from quiz() as the other errors do.
quiz_match_abort_on_data(r, qs) ==
    IF r.ok THEN [pc |-> "loop", questions |-> Append(qs, r.val[1]), run |-> NoneOpt]
    ELSE IF r.err[1].kind = "panic"
    THEN [pc |-> "panicked", questions |-> qs, run |-> NoneOpt]
    ELSE IF r.err[1].kind = "ApiError"
    THEN [pc |-> "aborted", questions |-> qs, run |-> Some(Err(r.err[1].cause[1]))]
    ELSE [pc |-> "aborted", questions |-> qs, run |-> Some(Err(r.err[1]))]
\* quiz(): the match on the result of generate_mcq, as the next place of the
\* run, its question list and its result.
quiz_match(r, qs) ==
    IF r.ok THEN [pc |-> "loop", questions |-> Append(qs, r.val[1]), run |-> NoneOpt]
    ELSE IF r.err[1].kind = "DataError"
    THEN [pc |-> "loop", questions |-> qs, run |-> NoneOpt]
    ELSE IF r.err[1].kind = "panic"
    THEN [pc |-> "panicked", questions |-> qs, run |-> NoneOpt]
    ELSE IF r.err[1].kind = "ApiError"
    THEN \* EnglishQuizError::ApiError(e) => return Err(e)
         [pc |-> "aborted", questions |-> qs, run |-> Some(Err(r.err[1].cause[1]))]
    ELSE \* EnglishQuizError::FileError(e) => return Err(e.into())
         [pc |-> "aborted", questions |-> qs, run |-> Some(Err(r.err[1]))]

\* generate_mcq returns r to quiz().
mcq_return(r) ==
    /\ mcq_result' = Some(r)
    /\ LET m == quiz_match(r, questions)
       IN  /\ pc' = m.pc
           /\ questions' = m.questions
           /\ run_result' = m.run

\* A faulty condition: the loop goes on at the requested length.
LoopConditionOneMore == Len(questions) <= length /\ available_words # 0
\* while questions.len() < args.length && english_quiz.available_words() != 0
LoopCondition == Len(questions) < length /\ available_words # 0

\* One pass of the loop up to the first provider call: select_word, the
\* lowercasing, and the entry of generate_mcq into try_get for the synonyms.
LoopSelect ==
    /\ pc = "loop"
    /\ LoopCondition
    /\ \E choice \in choose(Unselected(selected)) :
         /\ select_word(choice)
         /\ IF select_result'.ok
            THEN /\ word' = to_lowercase(select_result'.val[1])
                 /\ try_get_begin("synonyms")
                 /\ pc' = "try_get"
            ELSE \* EnglishQuizError::DataError => continue
                 /\ UNCHANGED <<word, pc>>
                 /\ UNCHANGED lookupVars
    /\ synonyms_resp' = NoneOpt
    /\ statement_resp' = NoneOpt
    /\ mcq_result' = NoneOpt
    /\ synonyms_calls' = <<>>
    /\ UNCHANGED <<kind, length, questions, run_result, section, started, persisted>>
    /\ UNCHANGED <<carryVars, libVars>>

\* generate_mcq after the synonym lookup: `?`, then the match on the kind and
\* the entry into try_get for the statement.
AfterSynonyms ==
    /\ pc = "returned"
    /\ attr = "synonyms"
    /\ IF ~lookup[1].ok
       THEN /\ mcq_return(lookup[1])
            /\ try_get_end
            /\ UNCHANGED <<synonyms_resp, synonyms_calls>>
       ELSE /\ synonyms_resp' = Some(lookup[1].val[1])
            /\ IF StatementAttr(kind) = NoneOpt
               THEN /\ mcq_return(Err(Panic))
                    /\ try_get_end
                    /\ UNCHANGED synonyms_calls
               ELSE /\ try_get_begin(StatementAttr(kind)[1])
                    /\ pc' = "try_get"
                    /\ synonyms_calls' = calls
                    /\ UNCHANGED <<mcq_result, questions, run_result>>
    /\ UNCHANGED <<word, statement_resp, kind, length, section, started, persisted>>
    /\ UNCHANGED poolVars
    /\ UNCHANGED <<carryVars, libVars>>

\* generate_mcq after the statement lookup: `?`, the checks, the statement,
\* generate_choices and the solution; then quiz() matches the result.
AfterStatement ==
    /\ pc = "returned"
    /\ attr # "synonyms"
    /\ IF ~lookup[1].ok
       THEN /\ mcq_return(lookup[1])
            /\ UNCHANGED statement_resp
       ELSE /\ statement_resp' = Some(lookup[1].val[1])
            /\ \E r \in generate_mcq_tail(word, synonyms_resp[1], lookup[1].val[1]) :
                 mcq_return(r)
    /\ try_get_end
    /\ synonyms_calls' = <<>>
    /\ UNCHANGED <<word, synonyms_resp, kind, length, section, started, persisted>>
    /\ UNCHANGED poolVars
    /\ UNCHANGED <<carryVars, libVars>>

\* The loop ends: Section::new(questions) takes the question list, and
\* section.start_quiz(args.mode) runs the session and gives the report.
StartQuiz ==
    /\ pc = "loop"
    /\ ~LoopCondition
    /\ section' = Some(Len(questions))
    /\ questions' = <<>>
    /\ started' = TRUE
    /\ pc' = "save"
    /\ synonyms_resp' = NoneOpt
    /\ statement_resp' = NoneOpt
    /\ mcq_result' = NoneOpt
    /\ UNCHANGED <<word, kind, length, run_result, persisted, synonyms_calls>>
    /\ UNCHANGED <<poolVars, lookupVars>>
    /\ UNCHANGED <<carryVars, libVars>>

\* section.save(..)?; report.save(..)?; Ok(()): `saved` of the two files are
\* written before a save fails, or both are.
Save ==
    /\ pc = "save"
    /\ \E saved \in 0..2 :
         /\ persisted' = saved
         /\ IF saved = 2
            THEN pc' = "done" /\ run_result' = Some(Ok("unit"))
            ELSE pc' = "aborted" /\ run_result' = Some(Err(FileError))
    /\ UNCHANGED <<kind, length, questions, section, started>>
    /\ UNCHANGED <<poolVars, lookupVars, mcqVars>>
    /\ UNCHANGED <<carryVars, libVars>>

\* std::io::ErrorKind, as far as quiz() tells the kinds apart.
IoErrorKinds == {"NotFound", "UnexpectedEof", "InvalidData", "PermissionDenied"}

\* A first run: neither file of a previous session exists.
NoPriorSession ==
    /\ questions_file = Err("NotFound")
    /\ answers_file = Err("NotFound")
    /\ loaded = Some(Err("NotFound"))
    /\ seed = <<>>

\* No session of the library is running.
NoSession ==
    /\ bank = <<>>
    /\ section_questions = <<>>
    /\ quiz_mode = "Batch"
    /\ quiz_n = 0
    /\ answers = <<>>
    /\ entered = <<>>
    /\ output = <<>>
    /\ score = NoneOpt
    /\ lib_pc = "idle"

\* The locals of quiz() and of the calls it makes, before the loop.
RunLocals ==
    /\ word = <<>>
    /\ attr = "synonyms"
    /\ api = 1
    /\ last_err = NoneOpt
    /\ calls = <<>>
    /\ lookup = NoneOpt
    /\ synonyms_resp = NoneOpt
    /\ statement_resp = NoneOpt
    /\ mcq_result = NoneOpt
    /\ synonyms_calls = <<>>
    /\ select_result = NoneOpt
    /\ select_calls = 0
    /\ offered = <<>>
    /\ run_result = NoneOpt
    /\ section = NoneOpt
    /\ started = FALSE
    /\ persisted = 0

\* quiz() of main.rs is not running.
NoRun ==
    /\ words = <<>>
    /\ selected = <<>>
    /\ kind = "Synonyms"
    /\ length = 1
    /\ questions = <<>>
    /\ pc = "idle"
    /\ RunLocals
    /\ NoPriorSession

\* The state of quiz() once EnglishQuiz::new has returned for the source
\* file `lines`, with no question carried forward.
InitWith(lines, kinds, lengths) ==
    /\ words = new_words(lines)
    /\ selected = new_selected(new_words(lines))
    /\ kind \in kinds
    /\ length \in lengths
    /\ questions = <<>>
    /\ pc = "loop"
    /\ RunLocals
    /\ NoPriorSession
    /\ NoSession

\* A run of quiz().
Init == \E lines \in SourceFiles : InitWith(lines, CliKinds, 1..MaxLength)

Next ==
    \/ LoopSelect
    \/ ProviderCall(RunWorld)
    \/ AfterSynonyms
    \/ AfterStatement
    \/ StartQuiz
    \/ Save

Spec == Init /\ [][Next]_vars

\* A run of quiz() for one question from a source file of one line: a single
\* generate_mcq call, over all the answers of McqWorld.
InitMcq == \E line \in LineSet : InitWith(<<line>>, CliKinds, {1})

NextMcq ==
    \/ LoopSelect
    \/ ProviderCall(McqWorld)
    \/ AfterSynonyms
    \/ AfterStatement
    \/ StartQuiz
    \/ Save

SpecMcq == InitMcq /\ [][NextMcq]_vars

\* A client of the pool alone: select_word called again and again, also
\* once the pool is drawn dry.
PoolSelect ==
    /\ select_calls < Len(words) + MaxExtraCalls
    /\ \E choice \in choose(Unselected(selected)) : select_word(choice)
    /\ UNCHANGED <<lookupVars, mcqVars, runVars>>
    /\ UNCHANGED <<carryVars, libVars>>

InitPool == \E lines \in PoolFiles : InitWith(lines, {"Synonyms"}, {1})

NextPool == PoolSelect

SpecPool == InitPool /\ [][NextPool]_vars

\* A run of quiz() for one question on an EnglishQuiz of any kind of Details,
\* from a source file of one word.
InitKinds == InitWith(<<s_Cat_padded>>, Details, {1})

NextKinds ==
    \/ LoopSelect
    \/ ProviderCall(RunWorld)
    \/ AfterSynonyms
    \/ AfterStatement
    \/ StartQuiz
    \/ Save

SpecKinds == InitKinds /\ [][NextKinds]_vars

\* ---------------------------------------------------------- load_questions

\* Two questions of a previous session.
p_one == Mcq("old1", <<s_cat, s_tom, s_kit, s_pus>>, "A")
p_two == Mcq("old2", <<s_tom, s_cat, s_kit, s_pus>>, "B")
PriorQuestions == {p_one, p_two}

\* (Q::Answer, Option<Q::Answer>): the expected answer and the submitted one.
AnswerPair(a1, a2) == [expected |-> a1, submitted |-> a2]

\* The entries of an answers file: not answered, answered right, answered
\* wrong.
AnswerPairs ==
    {AnswerPair("A", NoneOpt), AnswerPair("A", Some("A")), AnswerPair("A", Some("B"))}

\* What opening and parsing a session file gives: an io::Error of some kind
\* (a parse error arrives as one through `?`), or the entries of the file.
FileResults(S, n) == {Err(k) : k \in IoErrorKinds} \cup {Ok(v) : v \in SeqsUpTo(S, n)}

\* A faulty filter: a question with no submission is kept too.
keep_pair_or_absent(pair) ==
    \/ pair[2].submitted = NoneOpt
    \/ pair[2].submitted[1] # pair[2].expected
\* a2.as_ref().filter(|&a2| a2 != &a1): the pair (q, (a1, a2)) is kept.
keep_pair(pair) ==
    /\ pair[2].submitted # NoneOpt
    /\ pair[2].submitted[1] # pair[2].expected

\* questions.into_iter().zip(answers).filter_map(..).collect()
filter_map_kept(zipped) ==
    [i \in DOMAIN SelectSeq(zipped, keep_pair) |-> SelectSeq(zipped, keep_pair)[i][1]]

\* A faulty load: a failure of the answers file gives an empty list.
load_questions_answers_unchecked(qf, af) ==
    IF ~qf.ok THEN Err(qf.err[1])
    ELSE IF ~af.ok THEN Ok(<<>>)
    ELSE Ok(filter_map_kept(zip(qf.val[1], af.val[1])))
\* load_questions, on the two files as read.
load_questions(qf, af) ==
    IF ~qf.ok THEN Err(qf.err[1])
    ELSE IF ~af.ok THEN Err(af.err[1])
    ELSE Ok(filter_map_kept(zip(qf.val[1], af.val[1])))

\* A faulty truncate: the vector is left as long as it is.
truncate_none(v, len) == v
\* Vec::truncate
truncate(v, len) == SubSeq(v, 1, Min(len, Len(v)))

\* The io::Error quiz() returns, as an anyhow::Error.
IoError(k) == [kind |-> "IoError", cause |-> <<[io |-> k]>>]

\* quiz(): the match on load_questions(), with the permutation the shuffle
\* drew; then EnglishQuiz::new, which has the pool of the source file.
Load ==
    /\ pc = "load"
    /\ LET r == load_questions(questions_file, answers_file)
       IN  /\ loaded' = Some(r)
           /\ IF r.ok
              THEN /\ \E p \in Perms(Len(r.val[1])) :
                        /\ questions' = truncate(shuffle(r.val[1], p), length \div SeedRatio)
                        /\ seed' = truncate(shuffle(r.val[1], p), length \div SeedRatio)
                   /\ pc' = "loop"
                   /\ UNCHANGED run_result
              ELSE IF r.err[1] \in {"NotFound", "UnexpectedEof"}
              THEN /\ questions' = <<>>
                   /\ seed' = <<>>
                   /\ pc' = "loop"
                   /\ UNCHANGED run_result
              ELSE /\ pc' = "aborted"
                   /\ run_result' = Some(Err(IoError(r.err[1])))
                   /\ UNCHANGED <<questions, seed>>
    /\ UNCHANGED <<kind, length, section, started, persisted>>
    /\ UNCHANGED <<questions_file, answers_file>>
    /\ UNCHANGED <<poolVars, lookupVars, mcqVars, libVars>>

\* The state of quiz() at its call of load_questions, for the source file
\* `lines` and the two files of the previous session.
InitLoadWith(lines, kinds, lengths, qfiles, afiles) ==
    /\ words = new_words(lines)
    /\ selected = new_selected(new_words(lines))
    /\ kind \in kinds
    /\ length \in lengths
    /\ questions = <<>>
    /\ pc = "load"
    /\ RunLocals
    /\ questions_file \in qfiles
    /\ answers_file \in afiles
    /\ loaded = NoneOpt
    /\ seed = <<>>
    /\ NoSession

\* A run of quiz() over any previous session, with an empty source file:
\* the seed is the whole question list.
InitCarry ==
    InitLoadWith(<<>>, {"Synonyms"}, 1..MaxCarryLength,
                 FileResults(PriorQuestions, MaxPrior),
                 FileResults(AnswerPairs, MaxPrior))

NextCarry ==
    \/ Load
    \/ StartQuiz
    \/ Save

SpecCarry == InitCarry /\ [][NextCarry]_vars

\* For a run that tops a seed up: one synonym three times or too few
\* synonyms, one statement or none.
FillWorld ==
    [synonyms |-> { <<s_tom, s_tom, s_tom>>, <<s_tom, s_kit>> },
     statements |-> { <<>>, <<"st1">> }]

\* The previous sessions of such a run: none, or two questions that were
\* both answered wrong.
FillQuestionFiles == {Err("NotFound"), Ok(<<p_one, p_two>>)}
FillAnswerFiles ==
    {Ok(<<AnswerPair("A", Some("B")), AnswerPair("A", Some("B"))>>)}

\* The source files of such a run: a word on every line.
FillFiles == SeqsUpTo({s_Cat_padded}, MaxLines)

\* A run of quiz() from load_questions on, through the loop.
InitFill ==
    \E lines \in FillFiles :
        InitLoadWith(lines, {"Synonyms"}, 1..MaxFillLength,
                     FillQuestionFiles, FillAnswerFiles)

NextFill ==
    \/ Load
    \/ LoopSelect
    \/ ProviderCall(FillWorld)
    \/ AfterSynonyms
    \/ AfterStatement
    \/ StartQuiz
    \/ Save

SpecFill == InitFill /\ [][NextFill]_vars

\* A run of quiz() with no previous session, asked for more questions than
\* the source file has words.
InitLoop ==
    \E lines \in FillFiles :
        InitLoadWith(lines, {"Synonyms"}, {MaxFillLength},
                     {Err("NotFound")}, FillAnswerFiles)

\* generate_mcq returns to quiz() after its statement lookup, and quiz()
\* matches the result: the step AfterStatement, by the place it leads to.
McqReturns ==
    /\ pc = "returned"
    /\ attr # "synonyms"
    /\ pc' \in {"loop", "aborted", "panicked"}

\* Such a run when every provider call returns and the process is not
\* stopped from outside: a step of the sequential code that can be taken is
\* taken.
SpecLoop ==
    /\ InitLoop
    /\ [][NextFill]_vars
    /\ WF_vars(Load)
    /\ WF_vars(LoopSelect)
    /\ WF_vars(ProviderCall(FillWorld))
    /\ WF_vars(AfterSynonyms)
    /\ WF_pc(McqReturns)
    /\ WF_vars(StartQuiz)
    /\ WF_vars(Save)

\* The files of a previous session at the start of a run: each fails to be
\* read in one of the ways, or holds one entry.
StartQuestionFiles == {Err(k) : k \in IoErrorKinds} \cup {Ok(<<p_one>>)}
StartAnswerFiles ==
    {Err(k) : k \in IoErrorKinds} \cup {Ok(<<AnswerPair("A", Some("B"))>>)}

\* A run of quiz() from load_questions on, over a source file of one word.
InitStart ==
    InitLoadWith(<<s_Cat_padded>>, {"Synonyms"}, 1..MaxLength,
                 StartQuestionFiles, StartAnswerFiles)

SpecStart == InitStart /\ [][NextFill]_vars

\* ------------------------------------------------------ Choice, MCQ (lib)

\* enum Choice
Choices == {"A", "B", "C", "D"}

\* impl FromStr for Choice
Choice_from_str(s) ==
    LET t == to_uppercase(trim(s))
    IN  CASE t = <<"A">> -> Ok("A")
          [] t = <<"B">> -> Ok("B")
          [] t = <<"C">> -> Ok("C")
          [] t = <<"D">> -> Ok("D")
          [] OTHER -> Err("Invalid choice")

\* MCQ::new
MCQ(sentence, choices, solution) ==
    [sentence |-> sentence, choices |-> choices, solution |-> solution]

\* impl Solver<Choice> for MCQ
solve(style) == style.solution

\* slice::contains
Contains(s, x) == \E i \in DOMAIN s : s[i] = x

\* A faulty filter: the items already asked stay available.
available_all(bk, old) == bk
\* bank.iter().filter(|item| !old.contains(item))
available(bk, old) == SelectSeq(bk, LAMBDA item : ~Contains(old, item))

\* impl Quizzer for MCQ: generate, over the draws of `choose`; the panic of
\* expect("bank cannot be empty") is an Err.
generate(bk, old) ==
    IF available(bk, old) # <<>>
    THEN {Ok(available(bk, old)[i]) : i \in DOMAIN available(bk, old)}
    ELSE IF bk # <<>>
    THEN {Ok(bk[i]) : i \in DOMAIN bk}
    ELSE {Err(Panic)}

\* ------------------------------------------------------ Question, Section

\* struct Unanswered; struct Answered<T>(Option<T>)
Unanswered == [tag |-> "Unanswered", answer |-> NoneOpt]
Answered(a) == [tag |-> "Answered", answer |-> a]

\* Question::new
Question_new(style) == [style |-> style, state |-> Unanswered]

\* A faulty answer: the question stays Unanswered.
Question_answer_not(q, a) == [style |-> q.style, state |-> Unanswered]
\* Question::answer
Question_answer(q, a) == [style |-> q.style, state |-> Answered(a)]

\* A faulty mark: a question with no submission counts as correct.
mark_absent_correct(q) ==
    IF q.state.answer = NoneOpt THEN TRUE
    ELSE solve(q.style) = q.state.answer[1]
\* Question::mark
mark(q) ==
    IF q.state.answer = NoneOpt THEN FALSE
    ELSE solve(q.style) = q.state.answer[1]

\* self.bank.iter().map(|q| &q.style).collect()
styles(qs) == [i \in DOMAIN qs |-> qs[i].style]

\* Section::ask, over the draws of generate.
ask(bk, qs) ==
    {IF r.ok THEN Ok(Question_new(r.val[1])) ELSE r :
        r \in generate(styles(bk), styles(qs))}

\* A faulty resize: a short vector is not padded.
resize_with_no_pad(v, new_len) == SubSeq(v, 1, Min(new_len, Len(v)))
\* Vec::resize_with(new_len, || None)
resize_with(v, new_len) ==
    IF Len(v) >= new_len THEN SubSeq(v, 1, new_len)
    ELSE v \o [i \in 1..(new_len - Len(v)) |-> NoneOpt]

\* Section::answer: the questions of the Answered section.
Section_answer(qs, submitted) ==
    LET options == [i \in DOMAIN submitted |-> Some(submitted[i])]
        resized == resize_with(options, Len(qs))
        zipped == zip(qs, resized)
    IN  [i \in DOMAIN zipped |-> Question_answer(zipped[i][1], zipped[i][2])]

\* f64: NaN, or the quotient num / den taken exactly (the rounding of the
\* division and of the product is not modelled).
NaN == [nan |-> TRUE, num |-> 0, den |-> 1]
F64(num, den) == [nan |-> FALSE, num |-> num, den |-> den]

\* a as f64 / b as f64, for 0 <= a <= b: 0.0 / 0.0 is NaN.
f64_div(a, b) == IF b = 0 THEN NaN ELSE F64(a, b)

\* x * k for a whole k: NaN stays NaN.
f64_mul(x, k) == IF x.nan THEN NaN ELSE F64(x.num * k, x.den)

\* Section::grade
grade(qs) ==
    f64_mul(f64_div(Cardinality({i \in DOMAIN qs : mark(qs[i])}), Len(qs)), 100)

\* --------------------------------------------------------- quiz() of lib

\* The items a bank is made of, with the solutions A and B.
m_one == MCQ("q1", <<s_cat, s_tom, s_kit, s_pus>>, "A")
m_two == MCQ("q2", <<s_tom, s_cat, s_kit, s_pus>>, "B")
BankItems == {Question_answer(Question_new(m), Some(solve(m))) : m \in {m_one, m_two}}

\* The banks Section::new is called with: empty, with one item twice, ...
Banks == SeqsUpTo(BankItems, MaxBank)

\* enum QuizMode
QuizModes == {"Interactive", "Batch"}

\* The lines read_line yields: "a" and " B" with their line ends, a line that
\* is no choice, and the empty string of the end of the input.
InputLines == {<<"a", "\n">>, <<" ", "B", "\n">>, <<"x", "\n">>, <<>>}

\* A faulty batch loop: an answer is put in front of the earlier ones.
batch_match_front(collected, input) ==
    LET r == Choice_from_str(trim(input))
    IN  IF r.ok THEN <<r.val[1]>> \o collected ELSE collected
\* batch_quiz: match input.trim().parse::<T>()
batch_match(collected, input) ==
    LET r == Choice_from_str(trim(input))
    IN  IF r.ok THEN Append(collected, r.val[1]) ELSE collected

\* interactive_quiz: match input.trim().parse::<T>()
interactive_match(collected, input) ==
    LET r == Choice_from_str(trim(input))
    IN  IF r.ok THEN Append(collected, r.val[1]) ELSE collected

\* What a session writes to stdout: a question, a prompt, the notice of an
\* invalid input.
Show(i) == [ev |-> "show", i |-> i]
Prompt(i) == [ev |-> "prompt", i |-> i]
Invalid(i) == [ev |-> "invalid", i |-> i]

\* println!("Invalid input: {e}. Skipping this question.")
Notice(i, input) ==
    IF Choice_from_str(trim(input)).ok THEN <<>> ELSE <<Invalid(i)>>

\* section.prepare(n): one pass of its loop, self.questions.push(self.ask()).
Ask ==
    /\ lib_pc = "prepare"
    /\ Len(section_questions) < quiz_n
    /\ \E r \in ask(bank, section_questions) :
         IF r.ok
         THEN /\ section_questions' = Append(section_questions, r.val[1])
              /\ UNCHANGED lib_pc
         ELSE /\ lib_pc' = "panicked"
              /\ UNCHANGED section_questions
    /\ UNCHANGED <<bank, quiz_mode, quiz_n, answers, entered, output, score>>
    /\ UNCHANGED <<mainVars, carryVars>>

\* quiz(): prepare has returned; match quiz_mode.
Dispatch ==
    /\ lib_pc = "prepare"
    /\ Len(section_questions) = quiz_n
    /\ lib_pc' = IF quiz_mode = "Batch" THEN "batch_display"
                 ELSE IF section_questions = <<>> THEN "answer"
                 ELSE "interactive"
    /\ UNCHANGED <<bank, section_questions, quiz_mode, quiz_n, answers,
                   entered, output, score>>
    /\ UNCHANGED <<mainVars, carryVars>>

\* A faulty batch_quiz: the section is not printed before the prompts.
BatchDisplayNothing ==
    /\ lib_pc = "batch_display"
    /\ lib_pc' = IF section_questions = <<>> THEN "answer" ELSE "batch_prompt"
    /\ UNCHANGED <<bank, section_questions, quiz_mode, quiz_n, answers,
                   entered, output, score>>
    /\ UNCHANGED <<mainVars, carryVars>>

\* batch_quiz: println!("{section}"), every question in order.
BatchDisplay ==
    /\ lib_pc = "batch_display"
    /\ output' = output \o [i \in DOMAIN section_questions |-> Show(i)]
    /\ lib_pc' = IF section_questions = <<>> THEN "answer" ELSE "batch_prompt"
    /\ UNCHANGED <<bank, section_questions, quiz_mode, quiz_n, answers,
                   entered, score>>
    /\ UNCHANGED <<mainVars, carryVars>>

\* batch_quiz: one pass of its loop, for question Len(entered) + 1.
BatchPrompt ==
    /\ lib_pc = "batch_prompt"
    /\ \E input \in InputLines :
         /\ entered' = Append(entered, input)
         /\ answers' = batch_match(answers, input)
         /\ output' = output \o <<Prompt(Len(entered) + 1)>>
                             \o Notice(Len(entered) + 1, input)
    /\ lib_pc' = IF Len(entered) + 1 = Len(section_questions)
                 THEN "answer" ELSE "batch_prompt"
    /\ UNCHANGED <<bank, section_questions, quiz_mode, quiz_n, score>>
    /\ UNCHANGED <<mainVars, carryVars>>

\* interactive_quiz: one pass of its loop, for question Len(entered) + 1.
InteractiveStep ==
    /\ lib_pc = "interactive"
    /\ \E input \in InputLines :
         /\ entered' = Append(entered, input)
         /\ answers' = interactive_match(answers, input)
         /\ output' = output \o <<Show(Len(entered) + 1), Prompt(Len(entered) + 1)>>
                             \o Notice(Len(entered) + 1, input)
    /\ lib_pc' = IF Len(entered) + 1 = Len(section_questions)
                 THEN "answer" ELSE "interactive"
    /\ UNCHANGED <<bank, section_questions, quiz_mode, quiz_n, score>>
    /\ UNCHANGED <<mainVars, carryVars>>

\* section.answer(answers); `answers` keeps the vector that was handed over.
AnswerSection ==
    /\ lib_pc = "answer"
    /\ section_questions' = Section_answer(section_questions, answers)
    /\ lib_pc' = "grade"
    /\ UNCHANGED <<bank, quiz_mode, quiz_n, answers, entered, output, score>>
    /\ UNCHANGED <<mainVars, carryVars>>

\* .grade(): the value batch_quiz or interactive_quiz returns.
Grade ==
    /\ lib_pc = "grade"
    /\ score' = Some(grade(section_questions))
    /\ lib_pc' = "done"
    /\ UNCHANGED <<bank, section_questions, quiz_mode, quiz_n, answers,
                   entered, output>>
    /\ UNCHANGED <<mainVars, carryVars>>

\* A call quiz(n, Section::new(bank), quiz_mode).
InitSession ==
    /\ NoRun
    /\ bank \in Banks
    /\ section_questions = <<>>
    /\ quiz_mode \in QuizModes
    /\ quiz_n \in 0..MaxQuestions
    /\ answers = <<>>
    /\ entered = <<>>
    /\ output = <<>>
    /\ score = NoneOpt
    /\ lib_pc = "prepare"

NextSession ==
    \/ Ask
    \/ Dispatch
    \/ BatchDisplay
    \/ BatchPrompt
    \/ InteractiveStep
    \/ AnswerSection
    \/ Grade

SpecSession == InitSession /\ [][NextSession]_vars

\* A call section.answer(answers).grade() on any prepared section, with any
\* vector of submissions: fewer than the questions, as many, or more.
InitAnswer ==
    /\ NoRun
    /\ bank \in {b \in Banks : Len(b) = MaxBank}
    /\ section_questions \in
         SeqsUpTo({Question_new(b.style) : b \in BankItems}, MaxQuestions)
    /\ quiz_mode = "Batch"
    /\ quiz_n = Len(section_questions)
    /\ answers \in SeqsUpTo(Choices, MaxAnswers)
    /\ entered = <<>>
    /\ output = <<>>
    /\ score = NoneOpt
    /\ lib_pc = "answer"

NextAnswer ==
    \/ AnswerSection
    \/ Grade

SpecAnswer == InitAnswer /\ [][NextAnswer]_vars

\* ----------------------------------------------------------------- claims

\* The lookup has returned.
Returned == lookup # NoneOpt

\* generate_mcq has returned to quiz().
McqReturned == mcq_result # NoneOpt

\* The question generate_mcq returned.
McqQuestion == mcq_result[1].val[1]

\* The choices of question q that equal w case-insensitively.
EqualsWord(q, w) ==
    {i \in DOMAIN q.choices : to_lowercase(q.choices[i]) = to_lowercase(w)}

\* C1: a lookup calls the providers in their array order, each at most once,
\* calls none after the first one that succeeds, and returns that one's result.
C1_FirstSuccessWins ==
    /\ Len(calls) <= NumApis
    /\ \A k \in DOMAIN calls : calls[k].api = k
    /\ \A k \in DOMAIN calls : k < Len(calls) => ~calls[k].result.ok
    /\ (Returned /\ lookup[1].ok) =>
         /\ calls # <<>>
         /\ calls[Len(calls)].result.ok
         /\ lookup[1].val = calls[Len(calls)].result.val
    /\ ~Returned => \A k \in DOMAIN calls : ~calls[k].result.ok

\* A lookup answered by the second provider after the first one failed.
C1_Witness ==
    /\ Returned
    /\ lookup[1].ok
    /\ Len(calls) = NumApis

\* Every provider was called in the lookup and failed.
EveryProviderFailed ==
    \A p \in 1..NumApis :
        \E k \in DOMAIN calls : calls[k].api = p /\ ~calls[k].result.ok

\* C2: a lookup fails if and only if every provider fails; the failure is the
\* ApiError that wraps the error of the last provider, and a lookup that does
\* not fail returns a result and no error.
C2_FailsIffAllFail ==
    Returned =>
        /\ ~lookup[1].ok <=> EveryProviderFailed
        /\ ~lookup[1].ok =>
             /\ lookup[1].err = Some(ApiError(ErrorOf(NumApis)))
             /\ \E k \in DOMAIN calls :
                  /\ calls[k].api = NumApis
                  /\ calls[k].result.err = Some(ErrorOf(NumApis))
             /\ lookup[1].val = NoneOpt
        /\ lookup[1].ok =>
             /\ lookup[1].err = NoneOpt
             /\ lookup[1].val # NoneOpt

\* A lookup that failed at every provider.
C2_Witness ==
    /\ Returned
    /\ ~lookup[1].ok
    /\ Len(calls) = NumApis

\* The indices select_word returned so far.
OfferedSet == {offered[k] : k \in DOMAIN offered}

C3_Inv ==
    /\ \A i, j \in DOMAIN offered : offered[i] = offered[j] => i = j
    /\ OfferedSet \subseteq DOMAIN words
    /\ (select_calls > 0 /\ select_calls <= Len(words)) =>
         /\ Len(offered) = select_calls
         /\ select_result = Ok(words[offered[Len(offered)]])
    /\ select_calls = Len(words) => OfferedSet = DOMAIN words
    /\ select_calls > Len(words) =>
         /\ select_result = Err(DataError)
         /\ Len(offered) = Len(words)
         /\ \A i \in DOMAIN selected : selected[i]

\* C3: of a pool of n lines, the first n select_word calls succeed and return
\* every index once; a later call fails with DataError and leaves the pool as
\* it is.
C3_PoolDrawnOnce ==
    /\ []C3_Inv
    /\ [][select_calls >= Len(words) =>
            (words' = words /\ selected' = selected /\ offered' = offered)]_vars

\* The call after the last word of a pool of three lines.
C3_Witness ==
    /\ Len(words) = MaxPoolLines
    /\ select_calls = Len(words) + 1

\* C4: any two successful select_word calls of a run return different words.
C4_NoWordTwice ==
    \A i, j \in DOMAIN offered :
        i # j => words[offered[i]] # words[offered[j]]

\* C5: a question generate_mcq returns for the word has N choices, exactly
\* one of which equals the word case-insensitively.
C5_OneChoiceIsWord ==
    (McqReturned /\ mcq_result[1].ok) =>
        /\ questions # <<>>
        /\ questions[Len(questions)] = McqQuestion
        /\ Len(McqQuestion.choices) = N
        /\ Cardinality(EqualsWord(McqQuestion, word)) = 1

\* A question built from a synonym list that held the word itself.
C5_Witness ==
    /\ McqReturned
    /\ mcq_result[1].ok
    /\ \E i \in DOMAIN synonyms_resp[1].list :
         to_lowercase(synonyms_resp[1].list[i]) = to_lowercase(word)

\* C6: the choice texts of a question generate_mcq returns are pairwise
\* distinct.
C6_ChoicesDistinct ==
    (McqReturned /\ mcq_result[1].ok) =>
        \A i, j \in DOMAIN McqQuestion.choices :
            McqQuestion.choices[i] = McqQuestion.choices[j] => i = j

\* C7: the choice at the solution ordinal of a question generate_mcq returns
\* equals the word case-insensitively.
C7_SolutionIsWord ==
    (McqReturned /\ mcq_result[1].ok) =>
        Choice_as_usize(McqQuestion.solution) + 1 \in EqualsWord(McqQuestion, word)

\* A question whose word landed on the third place.
C7_Witness ==
    /\ McqReturned
    /\ mcq_result[1].ok
    /\ McqQuestion.solution = "C"
    /\ to_lowercase(McqQuestion.choices[3]) = to_lowercase(word)

\* C8: when the synonym lookup leaves fewer than N-1 entries once the
\* self-matches are removed, generate_mcq fails with DataError and quiz() goes
\* on with the loop, whatever the statement lookup returns.
C8_TooFewIsDataError ==
    (/\ McqReturned
     /\ synonyms_resp # NoneOpt
     /\ Len(FilterSelf(word, synonyms_resp[1].list)) < N - 1) =>
        /\ mcq_result[1] = Err(DataError)
        /\ pc = "loop"

\* The statement lookup answered for another word than the synonym lookup,
\* or with an empty list.
StatementMismatch ==
    /\ statement_resp # NoneOpt
    /\ synonyms_resp # NoneOpt
    /\ \/ statement_resp[1].word # synonyms_resp[1].word
       \/ statement_resp[1].list = <<>>

\* C9: generate_mcq fails with DataError, and returns no question, when the
\* statement lookup resolved another word than the synonym lookup and when
\* its list is empty.
C9_MismatchIsDataError ==
    (McqReturned /\ StatementMismatch) =>
        /\ mcq_result[1] = Err(DataError)
        /\ questions = <<>>

\* The two lookups resolved different words, with nothing else amiss.
C9_Witness ==
    /\ McqReturned
    /\ statement_resp # NoneOpt
    /\ statement_resp[1].word # synonyms_resp[1].word
    /\ statement_resp[1].list # <<>>
    /\ synonyms_resp[1].word = word
    /\ Len(FilterSelf(word, synonyms_resp[1].list)) >= N - 1

\* generate_mcq returns in this step with the error `e`.
McqFailsWith(e) ==
    /\ mcq_result = NoneOpt
    /\ mcq_result' # NoneOpt
    /\ ~mcq_result'[1].ok
    /\ mcq_result'[1].err[1].kind = e

C10_Inv ==
    (McqReturned /\ ~mcq_result[1].ok /\ mcq_result[1].err[1].kind = "ApiError") =>
        /\ pc = "aborted"
        /\ run_result = Some(Err(mcq_result[1].err[1].cause[1]))
        /\ section = NoneOpt
        /\ ~started
        /\ persisted = 0

\* C10: in the loop a DataError adds no question and does not end the run,
\* its word stays selected and is not offered again while the loop goes on;
\* an ApiError ends the run before a session is started or saved.
C10_SkipOrAbort ==
    /\ []C10_Inv
    /\ [][/\ McqFailsWith("DataError") =>
               /\ questions' = questions
               /\ pc' = "loop"
               /\ run_result' = NoneOpt
               /\ selected' = selected
               /\ selected[offered[Len(offered)]]
          /\ \A i \in DOMAIN selected : selected[i] => selected'[i]
          /\ \A k \in DOMAIN offered' :
               k > Len(offered) => ~selected[offered'[k]]
          /\ pc # "aborted"]_vars

\* The loop went on with a second word after the first one was skipped.
C10_Witness ==
    /\ Len(offered) = 2
    /\ pc = "try_get"
    /\ questions = <<>>
    /\ selected[offered[1]]

\* Section::answer has just run: the step from "answer" to "grade".
AnswerStep == lib_pc = "answer" /\ lib_pc' = "grade"

\* C11: Section::answer on n questions with k submissions gives the same n
\* questions in the same order, all Answered, where question i carries
\* submission i if there is one and no answer otherwise; the submissions
\* past the n-th are dropped.
C11_AnswerAligns ==
    [][AnswerStep =>
        /\ Len(section_questions') = Len(section_questions)
        /\ \A i \in DOMAIN section_questions :
             /\ section_questions'[i].style = section_questions[i].style
             /\ section_questions'[i].state.tag = "Answered"
             /\ section_questions'[i].state.answer =
                  IF i <= Len(answers) THEN Some(answers[i]) ELSE NoneOpt]_vars

\* Answered with fewer submissions than questions: the first question has
\* its submission, the last has none.
C11_Witness ==
    /\ lib_pc = "grade"
    /\ Len(section_questions) = 2
    /\ Len(answers) = 1
    /\ section_questions[1].state = Answered(Some(answers[1]))
    /\ section_questions[2].state = Answered(NoneOpt)

\* The section has been answered.
SectionAnswered == lib_pc \in {"grade", "done"}

\* What an input line stands for: the choice it parses to, or no answer.
Submission(input) ==
    IF Choice_from_str(trim(input)).ok
    THEN Some(Choice_from_str(trim(input)).val[1])
    ELSE NoneOpt

\* C12: in both modes the submission recorded for question j is the input
\* entered at the prompt of question j, and no answer where that input
\* cannot be parsed.
C12_EachKeepsOwnInput ==
    SectionAnswered =>
        \A j \in DOMAIN section_questions :
            section_questions[j].state.answer = Submission(entered[j])

AllAnswered(qs) == \A i \in DOMAIN qs : qs[i].state.tag = "Answered"

\* C13: in a run of a session the state of a question changes only in the
\* one Section::answer step, from Unanswered to Answered; an Answered
\* question stays as it is; the score is computed only once, after that
\* step, on questions that are all Answered; and a finished run has answered
\* every question.
C13_AnsweredOnceThenGraded ==
    /\ [](lib_pc = "done" => AllAnswered(section_questions) /\ score # NoneOpt)
    /\ [][/\ \A i \in DOMAIN section_questions :
               /\ i \in DOMAIN section_questions'
               /\ section_questions'[i].state # section_questions[i].state =>
                    /\ AnswerStep
                    /\ section_questions[i].state.tag = "Unanswered"
                    /\ section_questions'[i].state.tag = "Answered"
               /\ section_questions[i].state.tag = "Answered" =>
                    section_questions'[i] = section_questions[i]
          /\ score' # score =>
               /\ score = NoneOpt
               /\ lib_pc = "grade"
               /\ AllAnswered(section_questions)
               /\ section_questions' = section_questions]_vars

\* A finished session of two questions: both Answered, and a score.
C13_Witness ==
    /\ lib_pc = "done"
    /\ Len(section_questions) = 2
    /\ AllAnswered(section_questions)
    /\ score # NoneOpt

\* The vector interactive_quiz collects from the lines it reads.
RECURSIVE interactive_answers(_)
interactive_answers(lines) ==
    IF lines = <<>> THEN <<>>
    ELSE interactive_match(interactive_answers(SubSeq(lines, 1, Len(lines) - 1)),
                           lines[Len(lines)])

\* The vector batch_quiz collects from the lines it reads.
RECURSIVE batch_answers(_)
batch_answers(lines) ==
    IF lines = <<>> THEN <<>>
    ELSE batch_match(batch_answers(SubSeq(lines, 1, Len(lines) - 1)),
                     lines[Len(lines)])

\* The questions of the section as prepare left them.
Prepared == [i \in DOMAIN section_questions |-> Question_new(section_questions[i].style)]

\* C14: for the questions and the input lines of a finished run, the
\* submissions interactive_quiz records and the score it returns are those
\* batch_quiz records and returns, and the run, in whichever mode it was
\* made, recorded and returned just these.
C14_ModesGradeAlike ==
    lib_pc = "done" =>
        LET by_interactive == Section_answer(Prepared, interactive_answers(entered))
            by_batch == Section_answer(Prepared, batch_answers(entered))
        IN  /\ by_interactive = by_batch
            /\ grade(by_interactive) = grade(by_batch)
            /\ section_questions =
                 IF quiz_mode = "Interactive" THEN by_interactive ELSE by_batch
            /\ score = Some(grade(by_interactive))
            /\ score = Some(grade(by_batch))

\* A finished batch run over two questions and two lines, one of them a
\* choice and one not.
C14_Witness ==
    /\ lib_pc = "done"
    /\ quiz_mode = "Batch"
    /\ Len(entered) = 2
    /\ \E i, j \in DOMAIN entered :
         Submission(entered[i]) = NoneOpt /\ Submission(entered[j]) # NoneOpt
    /\ score # NoneOpt

\* The f64 x is the number p / q.
F64Is(x, p, q) == ~x.nan /\ x.num * q = p * x.den

\* C15: grading a section with no question gives the score 0.
C15_EmptyScoresZero ==
    (lib_pc = "done" /\ section_questions = <<>>) => F64Is(score[1], 0, 1)

\* The questions whose submission is present and is the expected solution.
Correct ==
    {i \in DOMAIN section_questions :
        /\ section_questions[i].state.answer # NoneOpt
        /\ section_questions[i].state.answer[1] = section_questions[i].style.solution}

\* C16: the score of a graded section of total > 0 questions is
\* 100 * correct / total, a question being correct only if its submission is
\* present and equal to the expected solution; it is 100 when every question
\* is correct and 0 when no submission is present.
C16_ScoreIsShareCorrect ==
    (lib_pc = "done" /\ section_questions # <<>>) =>
        /\ F64Is(score[1], 100 * Cardinality(Correct), Len(section_questions))
        /\ Correct = DOMAIN section_questions => F64Is(score[1], 100, 1)
        /\ (\A i \in DOMAIN section_questions :
               section_questions[i].state.answer = NoneOpt) => F64Is(score[1], 0, 1)

\* Two questions graded, one correct and one with no submission: 50.
C16_Witness ==
    /\ lib_pc = "done"
    /\ Len(section_questions) = 2
    /\ Correct = {1}
    /\ section_questions[2].state.answer = NoneOpt
    /\ F64Is(score[1], 50, 1)

\* load_questions has returned a list of questions.
LoadedOk == loaded # NoneOpt /\ loaded[1].ok

\* The positions at which both files have an entry.
PairedPositions == 1..Min(Len(questions_file.val[1]), Len(answers_file.val[1]))

\* The list `result` is made of the entries of qs at the positions P, in
\* their order.
IsPickOf(result, qs, P) ==
    /\ Len(result) = Cardinality(P)
    /\ \E f \in [DOMAIN result -> P] :
         /\ \A i, j \in DOMAIN result : i < j => f[i] < f[j]
         /\ \A i \in DOMAIN result : result[i] = qs[f[i]]

\* The paired positions whose submitted answer is there and is not the
\* expected one.
AnsweredWrong ==
    {i \in PairedPositions :
        /\ answers_file.val[1][i].submitted # NoneOpt
        /\ answers_file.val[1][i].submitted[1] # answers_file.val[1][i].expected}

\* The paired positions with no submitted answer.
NotAnswered ==
    {i \in PairedPositions : answers_file.val[1][i].submitted = NoneOpt}

C18_KeepsUnansweredOrWrong ==
    LoadedOk =>
        IsPickOf(loaded[1].val[1], questions_file.val[1], AnsweredWrong \cup NotAnswered)

\* The seed is made of entries of the list `kept`, each taken at most once.
IsSubBagOf(sd, kept) ==
    \E f \in [DOMAIN sd -> DOMAIN kept] :
        /\ \A i, j \in DOMAIN sd : f[i] = f[j] => i = j
        /\ \A i \in DOMAIN sd : sd[i] = kept[f[i]]

\* C19: the seed of a new run is taken from the kept prior questions and has
\* at most floor(length / 5) of them, however many were kept.
C19_SeedWithinFifth ==
    (LoadedOk /\ pc = "loop") =>
        /\ questions = seed
        /\ 5 * Len(seed) <= length
        /\ Len(seed) <= Len(loaded[1].val[1])
        /\ IsSubBagOf(seed, loaded[1].val[1])

\* Three questions kept and a length of 10: the seed has two of them.
C19_Witness ==
    /\ LoadedOk
    /\ pc = "loop"
    /\ Len(loaded[1].val[1]) = 3
    /\ length = 10
    /\ Len(seed) = 2

\* The loop of quiz() has ended without a return: its condition is false.
LoopEnded == pc = "loop" /\ ~LoopCondition

\* C20: when the loop ends without a fatal error the question list is no
\* longer than the requested length, and shorter only if no unselected word
\* is left; the carried-forward questions are at its front, and the list
\* changes in the loop only by a fresh question appended at its end.
C20_SeedThenFresh ==
    /\ [](LoopEnded =>
            /\ Len(questions) <= length
            /\ Len(questions) < length => available_words = 0
            /\ Len(seed) <= Len(questions)
            /\ SubSeq(questions, 1, Len(seed)) = seed)
    /\ [][(pc \notin {"load", "loop"} /\ questions' # questions) =>
            /\ mcq_result' # NoneOpt
            /\ mcq_result'[1].ok
            /\ questions' = Append(questions, mcq_result'[1].val[1])]_vars

\* The loop has ended on a dry pool: a carried-forward question in front, a
\* fresh one behind it, fewer than the requested five.
C20_Witness ==
    /\ LoopEnded
    /\ seed # <<>>
    /\ seed[1] \in PriorQuestions
    /\ Len(questions) = Len(seed) + 1
    /\ questions[Len(questions)].choices[1] \in {s_cat, s_tom}
    /\ Len(questions) < length
    /\ available_words = 0

\* One of the two files of the previous session fails to be read.
LoadFails == ~questions_file.ok \/ ~answers_file.ok

\* The kind of that failure: the questions file is read first.
FailureKind ==
    IF ~questions_file.ok THEN questions_file.err[1] ELSE answers_file.err[1]

\* C21: when loading the previous session fails, the run starts fresh with
\* an empty seed if and only if the failure is "not found" or "unexpected
\* end of data", for either file; any other failure ends the run at once
\* with that error, and no word is ever selected.
C21_FreshOrAbort ==
    /\ [][(pc = "load" /\ LoadFails) =>
            IF FailureKind \in {"NotFound", "UnexpectedEof"}
            THEN pc' = "loop" /\ questions' = <<>> /\ seed' = <<>>
                 /\ run_result' = NoneOpt
            ELSE pc' = "aborted"
                 /\ run_result' = Some(Err(IoError(FailureKind)))]_vars
    /\ []((LoadFails /\ FailureKind \notin {"NotFound", "UnexpectedEof"}) =>
            /\ select_calls = 0
            /\ offered = <<>>
            /\ Unselected(selected) = DOMAIN selected
            /\ pc \in {"load", "aborted"})

\* The questions file is read and the answers file is not valid data: the
\* run has ended, with a word in the pool that was never selected.
C21_Witness ==
    /\ pc = "aborted"
    /\ questions_file.ok
    /\ answers_file = Err("InvalidData")
    /\ run_result = Some(Err(IoError("InvalidData")))
    /\ words # <<>>
    /\ select_calls = 0

\* The choices of q that are the word w when case and the whitespace around
\* them are ignored.
SelfMatches(q, w) ==
    {i \in DOMAIN q.choices : trim(to_lowercase(q.choices[i])) = trim(to_lowercase(w))}

\* C22: a synonym that is the target word up to case and surrounding
\* whitespace is filtered out, so it is never a distractor: the word itself
\* is the only choice of a question that matches the word in that way.
C22_NoPaddedSelfMatch ==
    (McqReturned /\ mcq_result[1].ok) =>
        Cardinality(SelfMatches(McqQuestion, word)) = 1

\* The lookup under way has called providers 1..Len(calls), in that order.
CalledInOrder == \A i \in DOMAIN calls : calls[i].api = ApiAt(i)

\* C23: lookups are independent: every lookup starts at the first provider
\* whatever the earlier lookups did, so the statement lookup of a question
\* begins with the provider its synonym lookup began with, also when that
\* provider failed there; the providers that answer the two attributes may
\* therefore differ.
C23_LookupsIndependent ==
    /\ [][(pc # "try_get" /\ pc' = "try_get") =>
            /\ api' = 1
            /\ calls' = <<>>
            /\ last_err' = NoneOpt]_vars
    /\ [](CalledInOrder /\ (pc = "try_get" => api = Len(calls) + 1))
    /\ []((attr # "synonyms" /\ calls # <<>> /\ synonyms_calls # <<>>) =>
            calls[1].api = synonyms_calls[1].api)

\* The first provider failed the synonym lookup, the second answered it, and
\* the first provider has answered the statement lookup of the same question,
\* which is then built.
C23_Witness ==
    /\ pc = "returned"
    /\ attr # "synonyms"
    /\ Len(synonyms_calls) = 2
    /\ ~synonyms_calls[1].result.ok
    /\ synonyms_calls[2].result.ok
    /\ Len(calls) = 1
    /\ calls[1].api = synonyms_calls[1].api
    /\ calls[1].result.ok
    /\ \E r \in generate_mcq_tail(word, synonyms_resp[1], lookup[1].val[1]) : r.ok

\* The questions displayed so far and the prompts issued so far, in the
\* order of the output.
Shown == SelectSeq(output, LAMBDA e : e.ev = "show")
Prompted == SelectSeq(output, LAMBDA e : e.ev = "prompt")

\* The k-th event of evs is about question k.
InQuestionOrder(evs) == \A k \in DOMAIN evs : evs[k].i = k

\* C24: in batch mode every question is displayed before the first prompt
\* and the prompts follow in question order; in interactive mode question i
\* is displayed and its answer read before question i + 1 is displayed.
C24_DisplayOrder ==
    /\ [](InQuestionOrder(Shown) /\ InQuestionOrder(Prompted))
    /\ [](quiz_mode = "Batch" =>
            /\ \A j, k \in DOMAIN output :
                 (output[j].ev = "show" /\ output[k].ev = "prompt") => j < k
            /\ Prompted # <<>> => Len(Shown) = Len(section_questions))
    /\ [](quiz_mode = "Interactive" =>
            /\ Len(Shown) = Len(entered)
            /\ Len(Prompted) = Len(entered)
            /\ \A j, k \in DOMAIN output :
                 (output[j].ev = "prompt" /\ output[k].ev = "show"
                    /\ output[j].i = output[k].i) => k < j)
    /\ [][(quiz_mode = "Interactive" /\ Len(Shown') > Len(Shown)) =>
            /\ Len(Shown') = Len(Shown) + 1
            /\ Len(entered') = Len(Shown')]_vars

\* A batch session of two questions has ended: both were displayed, then
\* prompted for in order, the first input being invalid.
C24_Witness ==
    /\ lib_pc = "done"
    /\ quiz_mode = "Batch"
    /\ Len(section_questions) = 2
    /\ output = <<Show(1), Show(2), Prompt(1), Invalid(1), Prompt(2)>>

\* C25: the construction of the pool drops blank lines: no pool entry is
\* empty, and select_word never offers an empty word.
C25_NoEmptyWord ==
    /\ \A i \in DOMAIN words : words[i] # <<>>
    /\ (select_calls > 0 /\ select_result.ok) => select_result.val[1] # <<>>

\* C26: whatever the kind of the quiz and whatever the providers answer,
\* generate_mcq returns a question, a DataError or an ApiError, and the run
\* never ends in a panic.
C26_NeverPanics ==
    /\ McqReturned =>
         \/ mcq_result[1].ok
         \/ mcq_result[1].err[1].kind \in {"DataError", "ApiError"}
    /\ pc # "panicked"

\* The style x is the style of a question of the list qs.
AskedIn(qs, x) == \E i \in DOMAIN qs : qs[i].style = x

\* C27: on a non-empty bank prepare(n) appends exactly n questions, each
\* Unanswered and a copy of a bank item; an item that equals a question
\* already in the section is chosen only when every bank item equals one;
\* the bank stays as it was.
C27_PrepareAsksFromBank ==
    /\ [][(bank # <<>> /\ section_questions' # section_questions
             /\ lib_pc = "prepare") =>
            /\ Len(section_questions') = Len(section_questions) + 1
            /\ SubSeq(section_questions', 1, Len(section_questions)) = section_questions
            /\ LET q == section_questions'[Len(section_questions')]
               IN  /\ q.state = Unanswered
                   /\ \E b \in DOMAIN bank : bank[b].style = q.style
                   /\ AskedIn(section_questions, q.style) =>
                        \A b \in DOMAIN bank : AskedIn(section_questions, bank[b].style)]_vars
    /\ [][bank' = bank]_vars
    /\ [](bank # <<>> =>
            /\ lib_pc # "panicked"
            /\ Len(section_questions) <= quiz_n
            /\ lib_pc # "prepare" => Len(section_questions) = quiz_n)

\* prepare(2) has returned on a bank of two different items: the section
\* holds both, each once, Unanswered.
C27_Witness ==
    /\ lib_pc \in {"batch_display", "interactive"}
    /\ quiz_n = 2
    /\ Len(bank) = 2
    /\ bank[1].style # bank[2].style
    /\ Len(section_questions) = 2
    /\ section_questions[1].style # section_questions[2].style
    /\ \A i \in DOMAIN section_questions : section_questions[i].state = Unanswered

\* The loop of quiz() is over: its condition is false, or the run has
\* returned from inside it.
LoopOver == LoopEnded \/ pc \notin {"load", "loop", "try_get", "returned"}

\* C28: when every provider call returns the loop ends: each pass selects a
\* word, which succeeds and leaves one unselected word fewer, so there are
\* no more passes than the pool has words, whether the question of a pass is
\* built or skipped.
C28_LoopTerminates ==
    /\ <>LoopOver
    /\ [][select_calls' # select_calls =>
            /\ available_words # 0
            /\ select_calls' = select_calls + 1
            /\ select_result'.ok
            /\ Cardinality(Unselected(selected')) = available_words - 1]_vars
    /\ [](select_calls <= Len(words))

\* The loop has ended after as many passes as the pool has words, one that
\* built a question and one that skipped its word.
C28_Witness ==
    /\ LoopEnded
    /\ Len(words) = 2
    /\ select_calls = 2
    /\ available_words = 0
    /\ Len(questions) = Len(seed) + 1
    /\ Len(questions) < length
====
